---- MODULE Spec2Model ----
(***************************************************************************)
(* KexiftoolManager: the metadata session of PyKernel (load_file, the     *)
(* set_* mutators of PyExifKernel / PyMovKernel, save_file with its       *)
(* same-name and new-name paths) as a state machine over the session      *)
(* fields and the file system the session touches.                        *)
(*                                                                         *)
(* Representation of text.  A text is a sequence of whitespace-separated   *)
(* words; a word is a sequence of ':'-separated components; a component is *)
(* a sequence of characters; a character is a digit 0..9 or a letter code  *)
(* above 9.  "2021:05:10 14:30:00" is                                      *)
(*   << <<<<2,0,2,1>>,<<0,5>>,<<1,0>>>>, <<<<1,4>>,<<3,0>>,<<0,0>>>> >>.  *)
(* A path is a record dir/stem.ext with an iteration suffix (it, added by  *)
(* filetools.itername) and a flag for the "_original" suffix of a backup.  *)
(***************************************************************************)
EXTENDS Integers, Sequences, FiniteSets, TLC

VARIABLES filepath, metadata, commands, files, last

vars == <<filepath, metadata, commands, files, last>>

---------------------------------------------------------------------------
(* Bounds of the model *)

\* longest command list the model lets a call build
MaxCmds == 7
\* most -tag=value tokens the model lets the set_* calls queue
MaxEdits == 1
\* highest iteration suffix filetools.itername tries
MaxIter == 1

\* save_file / load_file: timeout=30
DefaultTimeout == 30
\* a timeout a caller passes that is not the default
ShortTimeout == 5

\* the timeout value a caller passes to save_file when it passes one
Timeouts == {ShortTimeout}

---------------------------------------------------------------------------
(* Paths and the file system *)

NoName == [stem |-> "", ext |-> "", it |-> 0, orig |-> FALSE]
\* Python None for self._filepath
NoPath == [dir |-> "", name |-> NoName]

MkName(stem, ext) == [stem |-> stem, ext |-> ext, it |-> 0, orig |-> FALSE]
\* Path.joinpath(name)
joinpath(dir, name) == [dir |-> dir, name |-> name]

FileA == joinpath("d1", MkName("a", "JPG"))
FileB == joinpath("d1", MkName("b", "MOV"))

\* the files a caller loads
LoadFiles == {FileA, FileB}
\* the file system before the first call
InitFiles == {FileA, FileB}
\* output_filename values a caller passes ("" is NoName)
OutNames == {NoName, FileA.name, FileB.name}
\* the shorter command list of the specification that draws every save_file
\* argument: room for one edit and one renaming save after a load
ShortCmds == MaxCmds - 2

\* self._filepath.name + "_original" joined to the parent
BackupPath(p) == [p EXCEPT !.name.orig = TRUE]

IterCandidate(p, i) == [p EXCEPT !.name.it = @ + i]
HasFreeName(p, fs) == p \notin fs \/ \E i \in 1..MaxIter : IterCandidate(p, i) \notin fs
\* filetools.itername: the path itself when it does not exist, else the
\* first iterated sibling name that does not exist
itername(p, fs) ==
    IF p \notin fs THEN p
    ELSE IterCandidate(p, CHOOSE i \in 1..MaxIter :
                              /\ IterCandidate(p, i) \notin fs
                              /\ \A j \in 1..(i - 1) : IterCandidate(p, j) \in fs)

---------------------------------------------------------------------------
(* Text, dates and command tokens *)

Pad2(n) == <<n \div 10, n % 10>>
Pad4(n) == <<n \div 1000, (n \div 100) % 10, (n \div 10) % 10, n % 10>>

\* the decimal digits of n without padding
RECURSIVE Digits(_)
Digits(n) == IF n < 10 THEN <<n>> ELSE Append(Digits(n \div 10), n % 10)

\* %Y of the C library: four digits for a year of four digits; below 1000
\* the platform decides between zero padding ("0999") and none ("999")
YearText(y, zero_padded) == IF zero_padded \/ y >= 1000 THEN Pad4(y) ELSE Digits(y)

\* date2add.strftime("%Y:%m:%d %H:%M:%S") on a platform
strftime_libc(d, zero_padded) ==
    << <<YearText(d[1], zero_padded), Pad2(d[2]), Pad2(d[3])>>,
       <<Pad2(d[4]), Pad2(d[5]), Pad2(d[6])>> >>

\* date2add.strftime("%Y:%m:%d %H:%M:%S"), for years of four digits
strftime(d) == strftime_libc(d, TRUE)

\* datetime values a caller passes to the date setters
Dates == { <<2021, 5, 10, 14, 30, 0>> }
\* the comment "hi"
Comments == { << << <<17, 18>> >> >> }

exiftool_path == "exiftool"

LitTok(s) == [k |-> "lit", s |-> s, txt |-> <<>>, p |-> NoPath]
\* '-' + kwrd + '=' + value
TagTok(kwrd, value) == [k |-> "tag", s |-> kwrd, txt |-> value, p |-> NoPath]
\* "-filename=" + str(new_file_path)
FilenameTok(p) == [k |-> "filename", s |-> "", txt |-> <<>>, p |-> p]
\* str(self._filepath)
PathTok(p) == [k |-> "path", s |-> "", txt |-> <<>>, p |-> p]

\* Keywords
tool_version == "ExifTool:ExifToolVersion"
exif_modify_date == "EXIF:ModifyDate"
exif_datetime_original == "EXIF:DateTimeOriginal"
mov_create_date == "QuickTime:CreateDate"
mov_comment == "QuickTime:Comment"

\* KernelPrivateTools._setmetadates on a platform
_setmetadates_libc(kwrd, date2add, zero_padded) ==
    TagTok(kwrd, strftime_libc(date2add, zero_padded))

_setmetadates(kwrd, date2add) == TagTok(kwrd, strftime(date2add))

\* int(x) accepts a non-empty run of digits
IsNumeric(x) == Len(x) > 0 /\ \A i \in 1..Len(x) : x[i] \in 0..9
RECURSIVE ToInt(_)
ToInt(x) == IF Len(x) = 0 THEN 0
            ELSE 10 * ToInt(SubSeq(x, 1, Len(x) - 1)) + x[Len(x)]
AllNumeric(word) == \A i \in 1..Len(word) : IsNumeric(word[i])

IsLeap(y) == (y % 4 = 0 /\ y % 100 # 0) \/ y % 400 = 0
DaysIn(y, m) == IF m = 2 THEN (IF IsLeap(y) THEN 29 ELSE 28)
                ELSE IF m \in {4, 6, 9, 11} THEN 30 ELSE 31
\* the arguments datetime.datetime(...) accepts
ValidDateTime(d) ==
    /\ d[1] \in 1..9999 /\ d[2] \in 1..12 /\ d[3] \in 1..DaysIn(d[1], d[2])
    /\ d[4] \in 0..23 /\ d[5] \in 0..59 /\ d[6] \in 0..59

\* datetime.datetime(1, 1, 1)
Sentinel == <<1, 1, 1, 0, 0, 0>>
Returned(d) == [exc |-> "none", val |-> d]
Raised(e) == [exc |-> e, val |-> <<>>]

\* KernelPrivateTools._metadates: values is the text already split on
\* whitespace.  ValueError (int() of a non-number, a date or time out of
\* range) is caught and gives the sentinel; IndexError (values[0],
\* values[1], ymd[2], hms[2] missing) is not caught.
_metadates(values) ==
    IF Len(values) = 0 THEN Raised("IndexError")
    ELSE IF ~AllNumeric(values[1]) THEN Returned(Sentinel)
    ELSE IF Len(values) < 2 THEN Raised("IndexError")
    ELSE IF ~AllNumeric(values[2]) THEN Returned(Sentinel)
    ELSE IF Len(values[1]) < 3 \/ Len(values[2]) < 3 THEN Raised("IndexError")
    ELSE LET d == <<ToInt(values[1][1]), ToInt(values[1][2]), ToInt(values[1][3]),
                    ToInt(values[2][1]), ToInt(values[2][2]), ToInt(values[2][3])>>
         IN  IF ValidDateTime(d) THEN Returned(d) ELSE Returned(Sentinel)

---------------------------------------------------------------------------
(* The external tool *)

VersionText == << << <<1, 2>> >> >>
GoodDateText == strftime(<<2020, 1, 1, 0, 0, 0>>)
GarbageText == << << <<20>>, <<21>>, <<22>> >>, << <<23>> >> >>

\* what `exiftool -G -J <file>` can print, as key/value pairs: an object
\* that carries the version key and the tags of the file, or a report
\* without the version key
RawOutputs(file) ==
    { << <<"ExifTool:Error", GarbageText>> >>,
      IF file.name.ext = "JPG"
      THEN << <<exif_datetime_original, GarbageText>>, <<tool_version, VersionText>>,
              <<exif_datetime_original, GoodDateText>> >>
      ELSE << <<tool_version, VersionText>>, <<mov_create_date, GoodDateText>> >> }

\* Keywords.ExifTool.tool_version in raw_mdta
HasMarker(raw) == \E i \in 1..Len(raw) : raw[i][1] = tool_version

\* json.loads(raw_mdta)[0]: an object; the last of two equal keys wins
json_loads(raw) ==
    [key \in {raw[i][1] : i \in 1..Len(raw)} |->
        raw[CHOOSE i \in 1..Len(raw) :
                /\ raw[i][1] = key
                /\ \A j \in (i + 1)..Len(raw) : raw[j][1] # key][2]]

\* one run of the external process: it times out, or it prints stdout; a
\* write run has updated the file or not, and a rename has moved the
\* source or left it
ReadRuns(file) ==
    [timedout : {FALSE}, stdout : RawOutputs(file), wrote : {FALSE}, moved : {FALSE}]
        \cup {[timedout |-> TRUE, stdout |-> <<>>, wrote |-> FALSE, moved |-> FALSE]}
WriteRuns == { [timedout |-> TRUE, stdout |-> <<>>, wrote |-> FALSE, moved |-> FALSE],
               [timedout |-> FALSE, stdout |-> <<"updated">>, wrote |-> TRUE, moved |-> FALSE],
               [timedout |-> FALSE, stdout |-> <<"updated">>, wrote |-> TRUE, moved |-> TRUE],
               [timedout |-> FALSE, stdout |-> <<"unchanged">>, wrote |-> FALSE, moved |-> FALSE],
               [timedout |-> FALSE, stdout |-> <<"errors">>, wrote |-> FALSE, moved |-> FALSE],
               [timedout |-> FALSE, stdout |-> <<>>, wrote |-> FALSE, moved |-> FALSE] }

\* 'word' in result
Contains(text, word) == \E i \in 1..Len(text) : text[i] = word

FilenameIdx(arguments) == {i \in 1..Len(arguments) : arguments[i].k = "filename"}
LastIdx(S) == CHOOSE i \in S : \A j \in S : j <= i

\* what a write run of the tool leaves on disk: an in-place write keeps a
\* backup <name>_original, a write with -filename= puts the result at the
\* new name
ToolEffect(arguments, run, fs) ==
    LET src == arguments[Len(arguments)].p
        fn == FilenameIdx(arguments)
    IN  IF ~run.wrote THEN fs
        ELSE IF fn = {} THEN fs \cup {BackupPath(src)}
        ELSE (IF run.moved THEN fs \ {src} ELSE fs) \cup {arguments[LastIdx(fn)].p}

\* the runs the tool can make on these arguments: it updates only a file
\* that exists and never renames onto an existing file
ToolCanRun(arguments, run, fs) ==
    LET src == arguments[Len(arguments)].p
        fn == FilenameIdx(arguments)
    IN  run.wrote => /\ src \in fs
                     /\ fn # {} => arguments[LastIdx(fn)].p \notin fs
                     /\ fn = {} => ~run.moved

\* KernelPrivateTools._execute: subprocess.run(args, timeout=timeout).
\* A first argument that is no program cannot be started (OSError).
_execute(arguments, timeout, run, fs) ==
    IF arguments[1] # LitTok(exiftool_path)
    THEN [exc |-> "OSError", stdout |-> <<>>, files |-> fs,
          call |-> [args |-> arguments, timeout |-> timeout, fs |-> fs]]
    ELSE IF run.timedout
    THEN [exc |-> "TimeoutExpired", stdout |-> <<>>, files |-> fs,
          call |-> [args |-> arguments, timeout |-> timeout, fs |-> fs]]
    ELSE [exc |-> "none", stdout |-> run.stdout, files |-> ToolEffect(arguments, run, fs),
          call |-> [args |-> arguments, timeout |-> timeout, fs |-> fs]]

---------------------------------------------------------------------------
(* The session *)

\* what a call was given and did not keep in the session
NoRun == [timedout |-> FALSE, stdout |-> <<>>, wrote |-> FALSE, moved |-> FALSE]
NoArgs == [file |-> NoPath, timeout |-> 0, run |-> NoRun, output_filename |-> NoName,
           overwrite |-> FALSE]
\* the loaded file and the length of the command list before the call
Before == [filepath |-> filepath, len |-> Len(commands)]

\* PyKernel.__init__
Init ==
    /\ filepath = NoPath
    /\ metadata = <<>>
    /\ commands = <<>>
    /\ files = InitFiles
    /\ last = [op |-> "init", ret |-> "None", execs |-> <<>>, removed |-> {},
               args |-> NoArgs, pre |-> [filepath |-> NoPath, len |-> 0]]

\* the two tokens load_file appends on success
BaselineCommands == <<LitTok(exiftool_path), LitTok("-P")>>

\* load_file with self._metadata.update(...) in place of the assignment
load_file_body_merge(file2load, timeout, run, fs) ==
    LET arguments == <<LitTok(exiftool_path), LitTok("-G"), LitTok("-J"), PathTok(file2load)>>
        res == _execute(arguments, timeout, run, fs)
        load_success == res.exc = "none" /\ HasMarker(res.stdout)
        new == json_loads(res.stdout)
    IN  [filepath |-> file2load,
         commands |-> IF load_success THEN BaselineCommands ELSE <<>>,
         metadata |-> IF load_success
                      THEN [key \in DOMAIN metadata \cup DOMAIN new |->
                               IF key \in DOMAIN new THEN new[key] ELSE metadata[key]]
                      ELSE <<>>,
         ret |-> IF res.exc = "none" THEN "None" ELSE res.exc,
         execs |-> <<res.call>>]

\* load_file without the reset self._commands = []
load_file_body_noreset(file2load, timeout, run, fs) ==
    LET arguments == <<LitTok(exiftool_path), LitTok("-G"), LitTok("-J"), PathTok(file2load)>>
        res == _execute(arguments, timeout, run, fs)
        load_success == res.exc = "none" /\ HasMarker(res.stdout)
    IN  [filepath |-> file2load,
         commands |-> IF load_success THEN commands \o BaselineCommands ELSE commands,
         metadata |-> IF load_success THEN json_loads(res.stdout) ELSE <<>>,
         ret |-> IF res.exc = "none" THEN "None" ELSE res.exc,
         execs |-> <<res.call>>]

\* PyKernel.load_file after the is_file assertion: the session is reset, the
\* tool runs, and the output is kept when it carries the version marker
load_file_body(file2load, timeout, run, fs) ==
    LET arguments == <<LitTok(exiftool_path), LitTok("-G"), LitTok("-J"), PathTok(file2load)>>
        res == _execute(arguments, timeout, run, fs)
        load_success == res.exc = "none" /\ HasMarker(res.stdout)
    IN  [filepath |-> file2load,
         commands |-> IF load_success THEN BaselineCommands ELSE <<>>,
         metadata |-> IF load_success THEN json_loads(res.stdout) ELSE <<>>,
         ret |-> IF res.exc = "none" THEN "None" ELSE res.exc,
         execs |-> <<res.call>>]

load_file(file2load, timeout, run) ==
    IF file2load \notin files
    THEN \* assert file2load.is_file()
         /\ last' = [op |-> "load_file", ret |-> "AssertionError", execs |-> <<>>,
                     removed |-> {}, args |-> [NoArgs EXCEPT !.file = file2load],
                     pre |-> Before]
         /\ UNCHANGED <<filepath, metadata, commands, files>>
    ELSE \E r \in {load_file_body(file2load, timeout, run, files)} :
             /\ filepath' = r.filepath
             /\ commands' = r.commands
             /\ metadata' = r.metadata
             /\ UNCHANGED files
             /\ last' = [op |-> "load_file", ret |-> r.ret, execs |-> r.execs,
                         removed |-> {},
                         args |-> [NoArgs EXCEPT !.file = file2load, !.timeout = timeout,
                                                 !.run = run],
                         pre |-> Before]

\* self._commands = [token] in place of the append
queue_replace(cmds, token) == <<token>>

\* self._commands.append(token) of the set_* methods
queue(cmds, token) == Append(cmds, token)

set_call(op, token) ==
    /\ commands' = queue(commands, token)
    /\ UNCHANGED <<filepath, metadata, files>>
    /\ last' = [op |-> op, ret |-> "None", execs |-> <<>>, removed |-> {},
                args |-> NoArgs, pre |-> Before]

set_exif_modify_date(date2add) ==
    set_call("set_exif_modify_date", _setmetadates(exif_modify_date, date2add))

set_exif_original_date(date2add) ==
    set_call("set_exif_original_date", _setmetadates(exif_datetime_original, date2add))

set_mov_create_date(date2add) ==
    set_call("set_mov_create_date", _setmetadates(mov_create_date, date2add))

set_mov_comment(comment) ==
    set_call("set_mov_comment", TagTok(mov_comment, comment))

\* __save_newname that deletes an existing target whatever overwrite is
save_newname_alwaysdelete(overwrite, output_filename, timeout, run, st) ==
    LET new_file_path == joinpath(st.filepath.dir, output_filename)
        deleted == new_file_path \in st.files
        fs1 == IF deleted THEN st.files \ {new_file_path} ELSE st.files
        target == itername(new_file_path, fs1)
        cmds == st.commands \o <<FilenameTok(target), PathTok(st.filepath)>>
        res == _execute(cmds, timeout, run, fs1)
    IN  [commands |-> cmds, files |-> res.files, execs |-> <<res.call>>,
         removed |-> IF deleted THEN {new_file_path} ELSE {},
         exc |-> res.exc, result |-> res.stdout]

\* PyKernel.__save_newname
save_newname(overwrite, output_filename, timeout, run, st) ==
    LET new_file_path == joinpath(st.filepath.dir, output_filename)
        deleted == overwrite /\ new_file_path \in st.files
        fs1 == IF deleted THEN st.files \ {new_file_path} ELSE st.files
        target == itername(new_file_path, fs1)
        cmds == st.commands \o <<FilenameTok(target), PathTok(st.filepath)>>
        res == _execute(cmds, timeout, run, fs1)
    IN  [commands |-> cmds, files |-> res.files, execs |-> <<res.call>>,
         removed |-> IF deleted THEN {new_file_path} ELSE {},
         exc |-> res.exc, result |-> res.stdout]

\* __save_samename that writes in place whatever overwrite is
save_samename_inplace(overwrite, timeout, run, st) ==
    LET cmds == Append(st.commands, PathTok(st.filepath))
        res == _execute(cmds, timeout, run, st.files)
        name2del == BackupPath(st.filepath)
    IN  IF res.exc # "none"
        THEN [commands |-> cmds, files |-> res.files, execs |-> <<res.call>>,
              removed |-> {}, exc |-> res.exc, result |-> res.stdout]
        ELSE IF name2del \notin res.files
        THEN [commands |-> cmds, files |-> res.files, execs |-> <<res.call>>,
              removed |-> {}, exc |-> "FileNotFoundError", result |-> res.stdout]
        ELSE [commands |-> cmds, files |-> res.files \ {name2del},
              execs |-> <<res.call>>, removed |-> {name2del},
              exc |-> "none", result |-> res.stdout]

\* PyKernel.__save_samename
save_samename(overwrite, timeout, run, st) ==
    IF ~overwrite
    THEN save_newname(FALSE, itername(st.filepath, st.files).name, DefaultTimeout, run, st)
    ELSE LET cmds == Append(st.commands, PathTok(st.filepath))
             res == _execute(cmds, timeout, run, st.files)
             name2del == BackupPath(st.filepath)
         IN  IF res.exc # "none"
             THEN [commands |-> cmds, files |-> res.files, execs |-> <<res.call>>,
                   removed |-> {}, exc |-> res.exc, result |-> res.stdout]
             ELSE IF name2del \notin res.files
             THEN \* os.remove of a file that does not exist
                  [commands |-> cmds, files |-> res.files, execs |-> <<res.call>>,
                   removed |-> {}, exc |-> "FileNotFoundError", result |-> res.stdout]
             ELSE [commands |-> cmds, files |-> res.files \ {name2del},
                   execs |-> <<res.call>>, removed |-> {name2del},
                   exc |-> "none", result |-> res.stdout]

\* not output_filename or output_filename == self._filepath.name
IsSameName(output_filename, fp) == output_filename = NoName \/ output_filename = fp.name

\* ('unchanged' not in result) and ('errors' not in result)
SaveSuccess(result) == ~Contains(result, "unchanged") /\ ~Contains(result, "errors")

\* PyKernel.save_file past its two early returns
save_file_body(output_filename, overwrite, timeout, run, st) ==
    LET r == IF IsSameName(output_filename, st.filepath)
             THEN save_samename(overwrite, timeout, run, st)
             ELSE save_newname(overwrite, output_filename, timeout, run, st)
    IN  [commands |-> r.commands, files |-> r.files, execs |-> r.execs,
         removed |-> r.removed,
         ret |-> IF r.exc # "none" THEN r.exc
                 ELSE IF SaveSuccess(r.result) THEN "True" ELSE "False"]

\* if len(self._commands) == 2
NothingToSave(cmds) == Len(cmds) = 2

save_file(output_filename, overwrite, timeout, run) ==
    IF filepath = NoPath \/ NothingToSave(commands)
    THEN /\ last' = [op |-> "save_file", ret |-> "False", execs |-> <<>>,
                     removed |-> {}, args |-> NoArgs, pre |-> Before]
         /\ UNCHANGED <<filepath, metadata, commands, files>>
    ELSE \E r \in {save_file_body(output_filename, overwrite, timeout, run,
                    [filepath |-> filepath, commands |-> commands, files |-> files])} :
             \* the tool makes only the runs it can make on these arguments
             /\ \A i \in 1..Len(r.execs) : ToolCanRun(r.execs[i].args, run, r.execs[i].fs)
             /\ commands' = r.commands
             /\ files' = r.files
             /\ UNCHANGED <<filepath, metadata>>
             /\ last' = [op |-> "save_file", ret |-> r.ret, execs |-> r.execs,
                         removed |-> r.removed,
                         args |-> [NoArgs EXCEPT !.output_filename = output_filename,
                                                 !.overwrite = overwrite,
                                                 !.timeout = timeout, !.run = run],
                         pre |-> Before]

---------------------------------------------------------------------------
(* The calls a client makes *)

NumEdits(cmds) == Cardinality({i \in 1..Len(cmds) : cmds[i].k = "tag"})

\* the command list stays within the bounds of the model
Fits(cap) == Len(commands') <= cap /\ NumEdits(commands') <= MaxEdits
\* filetools.itername finds a free name within MaxIter iterations
CanIterate(o) ==
    /\ HasFreeName(filepath, files)
    /\ HasFreeName(joinpath(filepath.dir, o), files)

Load == \E f \in LoadFiles : \E run \in ReadRuns(f) : load_file(f, DefaultTimeout, run)
LoadA == \E run \in ReadRuns(FileA) : load_file(FileA, DefaultTimeout, run)

SetExifModifyDate == \E d \in Dates : set_exif_modify_date(d) /\ Fits(MaxCmds)
SetExifOriginalDate == \E d \in Dates : set_exif_original_date(d) /\ Fits(MaxCmds)
SetMovCreateDate == \E d \in Dates : set_mov_create_date(d) /\ Fits(MaxCmds)
SetMovComment == \E c \in Comments : set_mov_comment(c) /\ Fits(MaxCmds)

\* save_file with any arguments
Save == \E o \in OutNames, w \in BOOLEAN, t \in Timeouts, run \in WriteRuns :
            CanIterate(o) /\ save_file(o, w, t, run) /\ Fits(MaxCmds)
SaveShort == \E o \in OutNames, w \in BOOLEAN, t \in Timeouts, run \in WriteRuns :
            CanIterate(o) /\ save_file(o, w, t, run) /\ Fits(ShortCmds)
\* save_file(): output_filename="", overwrite=False, timeout=30
SaveDefault == \E run \in WriteRuns :
            CanIterate(NoName) /\ save_file(NoName, FALSE, DefaultTimeout, run) /\ Fits(MaxCmds)

Next ==
    \/ Load
    \/ SetExifModifyDate
    \/ SetExifOriginalDate
    \/ SetMovCreateDate
    \/ SetMovComment
    \/ Save

Spec == Init /\ [][Next]_vars

\* a client that edits any tag of two files and saves with the default arguments
NextEdit ==
    \/ Load
    \/ SetExifModifyDate
    \/ SetExifOriginalDate
    \/ SetMovCreateDate
    \/ SetMovComment
    \/ SaveDefault

EditSpec == Init /\ [][NextEdit]_vars

\* a client that edits the original date of one file and saves with any arguments
NextSave ==
    \/ LoadA
    \/ SetExifOriginalDate
    \/ SaveShort

SaveSpec == Init /\ [][NextSave]_vars

---------------------------------------------------------------------------
(* Keyword groups *)

\* Keywords: the flags and the extensions of every group
Keywords ==
    [ExifTool |-> [readable |-> TRUE, editable |-> FALSE, extensions |-> <<>>],
     File |-> [readable |-> TRUE, editable |-> FALSE, extensions |-> <<>>],
     Exif |-> [readable |-> TRUE, editable |-> TRUE,
               extensions |-> <<"JPEG", "JPG", "PNG", "MPO">>],
     QuickTime |-> [readable |-> TRUE, editable |-> TRUE,
                    extensions |-> <<"MOV", "3GP", "MP4", "M4V">>],
     Asf |-> [readable |-> FALSE, editable |-> FALSE, extensions |-> <<>>],
     NoArranged |-> [readable |-> FALSE, editable |-> FALSE,
                     extensions |-> <<"BMP", "AVI", "MPG", "WAV", "MP3">>]]

\* Keywords.Exif._date_digitized
exif_date_digitized == "EXIF:CreateDate"

\* the autotest without the exemption of ExifTool and File
autotest_noexempt(name, group) ==
    IF group.editable /\ ~group.readable THEN "AssertionError"
    ELSE IF (group.editable \/ group.readable) /\ group.extensions = <<>>
    THEN "AssertionError"
    ELSE "ok"

\* the module-level autotest of pygroups, for one member of Keywords
autotest(name, group) ==
    IF group.editable /\ ~group.readable THEN "AssertionError"
    ELSE IF /\ (group.editable \/ group.readable)
            /\ name \notin {"ExifTool", "File"}
            /\ group.extensions = <<>>
    THEN "AssertionError"
    ELSE "ok"

\* ExifToolManager.__bases__, each by the group of its __KEYWORD
Bases == <<"Exif", "QuickTime">>

\* fast_readable_formats that keeps the extensions of the last base only
RECURSIVE readable_formats_last(_)
readable_formats_last(n) ==
    IF n = 0 THEN <<>>
    ELSE IF Keywords[Bases[n]].readable THEN Keywords[Bases[n]].extensions
    ELSE readable_formats_last(n - 1)

\* the loop of fast_readable_formats over the first n bases
RECURSIVE readable_formats(_)
readable_formats(n) ==
    IF n = 0 THEN <<>>
    ELSE IF Keywords[Bases[n]].readable
    THEN readable_formats(n - 1) \o Keywords[Bases[n]].extensions
    ELSE readable_formats(n - 1)

\* the loop of fast_editable_formats over the first n bases
RECURSIVE editable_formats(_)
editable_formats(n) ==
    IF n = 0 THEN <<>>
    ELSE IF Keywords[Bases[n]].editable
    THEN editable_formats(n - 1) \o Keywords[Bases[n]].extensions
    ELSE editable_formats(n - 1)

fast_readable_formats == readable_formats(Len(Bases))
fast_editable_formats == editable_formats(Len(Bases))
\* self._readable_formats and self._editable_formats, set by __init__
readable_extensions == fast_readable_formats
editable_extensions == fast_editable_formats

\* the members of a tuple
Members(t) == {t[i] : i \in 1..Len(t)}

\* str.upper() on the extensions the model uses
upper(ext) == CASE ext = "jpg" -> "JPG" [] ext = "mov" -> "MOV" [] OTHER -> ext

---------------------------------------------------------------------------
(* The readers of the kernels and the dispatcher *)

\* get_exif_original_date and its siblings: self._metadata[key].split()
\* decoded by _metadates; a missing key is a KeyError
get_date(md, key) ==
    IF key \notin DOMAIN md THEN Raised("KeyError") ELSE _metadates(md[key])

\* has_exif_original_date and its siblings: the key is present and the
\* getter raises none of IndexError, KeyError, ValueError
has_date(md, key) ==
    IF key \in DOMAIN md THEN get_date(md, key).exc = "none" ELSE FALSE

has_exif_date_original_field(md) == exif_datetime_original \in DOMAIN md
has_mov_create_date_field(md) == mov_create_date \in DOMAIN md
has_exif_modify_date(md) == has_date(md, exif_modify_date)
has_exif_original_date(md) == has_date(md, exif_datetime_original)
has_exif_digitized_date(md) == has_date(md, exif_date_digitized)
has_mov_create_date(md) == has_date(md, mov_create_date)
get_exif_original_date(md) == get_date(md, exif_datetime_original)
get_mov_create_date(md) == get_date(md, mov_create_date)

\* ExifToolManager.has_readable_metadate
has_readable_metadate(fp) ==
    IF fp = NoPath THEN Raised("AssertionError")
    ELSE Returned(upper(fp.name.ext) \in Members(readable_extensions))

\* has_metadata_date_original_field
has_metadata_date_original_field(fp, md) ==
    LET readable == has_readable_metadate(fp)
    IN  IF readable.exc # "none" THEN readable
        ELSE IF ~readable.val THEN Returned(FALSE)
        ELSE IF has_exif_date_original_field(md) THEN Returned(TRUE)
        ELSE IF has_mov_create_date_field(md) THEN Returned(TRUE)
        ELSE Returned(FALSE)

\* has_metadata_date_original that does not look at the extension
has_metadata_date_original_anyext(fp, md) ==
    IF fp = NoPath THEN Raised("AssertionError")
    ELSE IF has_exif_original_date(md) THEN Returned(TRUE)
    ELSE IF has_mov_create_date(md) THEN Returned(TRUE)
    ELSE Returned(FALSE)

\* has_metadata_date_original
has_metadata_date_original(fp, md) ==
    LET readable == has_readable_metadate(fp)
    IN  IF readable.exc # "none" THEN readable
        ELSE IF ~readable.val THEN Returned(FALSE)
        ELSE IF has_exif_original_date(md) THEN Returned(TRUE)
        ELSE IF has_mov_create_date(md) THEN Returned(TRUE)
        ELSE Returned(FALSE)

\* get_date_original that asks the QuickTime group first
get_date_original_movfirst(md) ==
    IF has_mov_create_date(md) THEN get_mov_create_date(md)
    ELSE IF has_exif_original_date(md) THEN get_exif_original_date(md)
    ELSE Raised("AssertionError")

\* get_date_original
get_date_original(md) ==
    IF has_exif_original_date(md) THEN get_exif_original_date(md)
    ELSE IF has_mov_create_date(md) THEN get_mov_create_date(md)
    ELSE Raised("AssertionError")

\* a value of the history under the name of its kind
Tagged(kind, v) ==
    CASE kind = "bool" -> [bool |-> v]
      [] kind = "date" -> [date |-> v]
      [] kind = "formats" -> [formats |-> v]
      [] kind = "roundtrip" -> [roundtrip |-> v]
      [] kind = "key" -> [key |-> v]
      [] kind = "text" -> [text |-> v]
      [] kind = "group" -> [group |-> v]
      [] OTHER -> [none |-> TRUE]
Nothing == Tagged("none", TRUE)

\* what a call that only reads was given (input) and what it answered: a
\* value of the kind, or the exception it raised
answer(op, res, kind, input) ==
    [op |-> op, ret |-> IF res.exc = "none" THEN "value" ELSE res.exc,
     val |-> IF res.exc = "none" THEN Tagged(kind, res.val) ELSE Nothing,
     input |-> input, execs |-> <<>>, removed |-> {},
     args |-> NoArgs, pre |-> Before]

\* a call that reads the session and changes nothing
query(op, res, kind, input) ==
    /\ last' = answer(op, res, kind, input)
    /\ UNCHANGED <<filepath, metadata, commands, files>>

\* set_date_original that picks the setter by the tags of the loaded file
set_date_original_byfields(date2add) ==
    IF filepath = NoPath THEN query("set_date_original", Raised("AssertionError"), "none",
               Tagged("date", date2add))
    ELSE IF has_exif_date_original_field(metadata)
    THEN set_call("set_date_original", _setmetadates(exif_datetime_original, date2add))
    ELSE IF has_mov_create_date_field(metadata)
    THEN set_call("set_date_original", _setmetadates(mov_create_date, date2add))
    ELSE query("set_date_original", Raised("AssertionError"), "none",
               Tagged("date", date2add))

\* set_date_original
set_date_original(date2add) ==
    IF filepath = NoPath THEN query("set_date_original", Raised("AssertionError"), "none",
               Tagged("date", date2add))
    ELSE LET extension == upper(filepath.name.ext)
         IN  IF extension \in Members(Keywords.Exif.extensions)
             THEN set_call("set_date_original",
                           _setmetadates(exif_datetime_original, date2add))
             ELSE IF extension \in Members(Keywords.QuickTime.extensions)
             THEN set_call("set_date_original",
                           _setmetadates(mov_create_date, date2add))
             ELSE query("set_date_original", Raised("AssertionError"), "none",
               Tagged("date", date2add))

---------------------------------------------------------------------------
(* A client of the dispatcher *)

FileC == joinpath("d1", MkName("c", "jpg"))
FileD == joinpath("d1", MkName("d", "TIF"))
DispatchFiles == {FileA, FileB, FileC, FileD}

OtherDateText == strftime(<<2021, 5, 10, 14, 30, 0>>)
\* "2020:01:01": no time token
DateOnlyText == << GoodDateText[1] >>
\* "2020:01": two date components, and a time
ShortDateText == << << GoodDateText[1][1], GoodDateText[1][2] >>, GoodDateText[2] >>

\* the values the tool can print for a tag, or no such tag
TagOutputs(key, values) == {<<>>} \cup { << <<key, v>> >> : v \in values }

\* objects with the version key and any combination of date tags
DispatchOutputs ==
    { << <<tool_version, VersionText>> >> \o o1 \o o2 \o o3 \o o4 :
        o1 \in TagOutputs(exif_datetime_original, {GoodDateText, GarbageText, DateOnlyText}),
        o2 \in TagOutputs(mov_create_date, {OtherDateText, ShortDateText}),
        o3 \in TagOutputs(exif_modify_date, {GarbageText}),
        o4 \in TagOutputs(exif_date_digitized, {DateOnlyText}) }

DispatchRuns ==
    [timedout : {FALSE},
     stdout : DispatchOutputs \cup { << <<"ExifTool:Error", GarbageText>> >> },
     wrote : {FALSE}, moved : {FALSE}]

\* the session after construction, next to the files of this client
InitDispatch ==
    /\ filepath = NoPath
    /\ metadata = <<>>
    /\ commands = <<>>
    /\ files = DispatchFiles
    /\ last = [op |-> "init", ret |-> "None", execs |-> <<>>, removed |-> {},
               args |-> NoArgs, pre |-> [filepath |-> NoPath, len |-> 0]]

LoadAny == \E f \in DispatchFiles : \E run \in DispatchRuns :
               load_file(f, DefaultTimeout, run)
SetDateOriginal == \E d \in Dates : set_date_original(d) /\ Fits(MaxCmds)
GetDateOriginal ==
    /\ last' = answer("get_date_original", get_date_original(metadata), "date", Nothing)
    /\ UNCHANGED <<filepath, metadata, commands, files>>
HasMetadataDateOriginal ==
    /\ last' = answer("has_metadata_date_original", has_metadata_date_original(filepath, metadata), "bool", Nothing)
    /\ UNCHANGED <<filepath, metadata, commands, files>>
HasMetadataDateOriginalField ==
    /\ last' = answer("has_metadata_date_original_field", has_metadata_date_original_field(filepath, metadata),
                        "bool", Nothing)
    /\ UNCHANGED <<filepath, metadata, commands, files>>
HasExifOriginalDate ==
    /\ last' = answer("has_exif_original_date", Returned(has_exif_original_date(metadata)),
                        "bool", Tagged("key", exif_datetime_original))
    /\ UNCHANGED <<filepath, metadata, commands, files>>
HasExifModifyDate ==
    /\ last' = answer("has_exif_modify_date", Returned(has_exif_modify_date(metadata)),
                        "bool", Tagged("key", exif_modify_date))
    /\ UNCHANGED <<filepath, metadata, commands, files>>
HasExifDigitizedDate ==
    /\ last' = answer("has_exif_digitized_date", Returned(has_exif_digitized_date(metadata)),
                        "bool", Tagged("key", exif_date_digitized))
    /\ UNCHANGED <<filepath, metadata, commands, files>>
HasMovCreateDate ==
    /\ last' = answer("has_mov_create_date", Returned(has_mov_create_date(metadata)),
                        "bool", Tagged("key", mov_create_date))
    /\ UNCHANGED <<filepath, metadata, commands, files>>

NextDispatch ==
    \/ LoadAny
    \/ SetDateOriginal
    \/ GetDateOriginal
    \/ HasMetadataDateOriginal
    \/ HasMetadataDateOriginalField
    \/ HasExifOriginalDate
    \/ HasExifModifyDate
    \/ HasExifDigitizedDate
    \/ HasMovCreateDate

DispatchSpec == InitDispatch /\ [][NextDispatch]_vars

---------------------------------------------------------------------------
(* A client of the static functions: the date codec, the autotest of the *)
(* keyword groups and the format lists                                    *)

\* date words: year, month and day from numbers and letters, and words with
\* two, four and an empty component
DateWords ==
    { <<y, m, d>> : y \in {<<2, 0, 2, 0>>, <<2, 0, 2, 1>>, <<17, 18>>},
                    m \in {<<0, 2>>, <<1, 3>>},
                    d \in {<<2, 9>>, <<0, 0>>} }
    \cup { << <<2, 0, 2, 0>>, <<0, 2>> >>,
           << <<2, 0, 2, 0>>, <<0, 2>>, <<2, 9>>, <<0, 7>> >>,
           << <<2, 0, 2, 0>>, <<>>, <<2, 9>> >> }
TimeWords ==
    { << h, <<5, 9>>, sec >> : h \in {<<2, 3>>, <<2, 4>>},
                               sec \in {<<0, 0>>, <<6, 0>>, <<19>>} }
    \cup { << <<2, 3>>, <<5, 9>> >> }
\* the split texts handed to _metadates: no word, a date alone, a date and a
\* time, and a date, a time and one more word
CodecTexts ==
    {<<>>} \cup { <<d>> : d \in DateWords }
    \cup { <<d, t>> : d \in DateWords, t \in TimeWords }
    \cup { <<d, t, t>> : d \in { << <<2, 0, 2, 0>>, <<0, 2>>, <<2, 9>> >> }, t \in TimeWords }

\* datetime values with whole seconds and no timezone
RoundTripDates ==
    { d \in { <<y, md[1], md[2], t[1], t[2], t[3]>> :
                y \in {1, 999, 1000, 2020, 9999},
                md \in {<<1, 1>>, <<2, 29>>, <<12, 31>>},
                t \in {<<0, 0, 0>>, <<23, 59, 59>>} } : ValidDateTime(d) }

\* members of Keywords as the autotest can meet them: the configured ones
\* and every combination of flags with and without extensions
AutotestCases ==
    { [name |-> n, group |-> Keywords[n]] : n \in DOMAIN Keywords }
    \cup [name : DOMAIN Keywords,
          group : [readable : BOOLEAN, editable : BOOLEAN,
                   extensions : {<<>>, <<"JPG">>}]]

Metadates ==
    \E values \in CodecTexts :
        /\ last' = answer("_metadates", _metadates(values), "date", Tagged("text", values))
        /\ UNCHANGED <<filepath, metadata, commands, files>>
\* _setmetadates, and _metadates of the value part of its token
SetMetadates ==
    \E d \in RoundTripDates, zero_padded \in BOOLEAN :
        LET token == _setmetadates_libc(exif_datetime_original, d, zero_padded)
        IN  /\ last' = answer("_setmetadates",
                               Returned([token |-> token,
                                         decoded |-> _metadates(token.txt)]),
                               "roundtrip", Tagged("date", d))
            /\ UNCHANGED <<filepath, metadata, commands, files>>
Autotest ==
    \E c \in AutotestCases :
        /\ last' = answer("autotest",
                           IF autotest(c.name, c.group) = "ok" THEN Returned(TRUE)
                           ELSE Raised(autotest(c.name, c.group)),
                           "bool", Tagged("group", c))
        /\ UNCHANGED <<filepath, metadata, commands, files>>
ReadableExtensions ==
    /\ last' = answer("readable_extensions", Returned(readable_extensions), "formats", Nothing)
    /\ UNCHANGED <<filepath, metadata, commands, files>>
EditableExtensions ==
    /\ last' = answer("editable_extensions", Returned(editable_extensions), "formats", Nothing)
    /\ UNCHANGED <<filepath, metadata, commands, files>>
FastReadableFormats ==
    /\ last' = answer("fast_readable_formats", Returned(fast_readable_formats), "formats", Nothing)
    /\ UNCHANGED <<filepath, metadata, commands, files>>
FastEditableFormats ==
    /\ last' = answer("fast_editable_formats", Returned(fast_editable_formats), "formats", Nothing)
    /\ UNCHANGED <<filepath, metadata, commands, files>>

NextStatic ==
    \/ Metadates
    \/ SetMetadates
    \/ Autotest
    \/ ReadableExtensions
    \/ EditableExtensions
    \/ FastReadableFormats
    \/ FastEditableFormats

StaticSpec == Init /\ [][NextStatic]_vars

---------------------------------------------------------------------------
(* Properties of the session *)

SetOps == {"set_exif_modify_date", "set_exif_original_date", "set_mov_create_date",
           "set_mov_comment"}

\* the last call was a save_file that reached _execute
SaveRan == last.op = "save_file" /\ last.execs # <<>>
\* the arguments of that one invocation, and the files at that time
SaveArgs == last.execs[1].args
SaveFs == last.execs[1].fs
\* the invocation started the tool (the session had a loaded baseline)
RanTool == SaveArgs[1] = LitTok(exiftool_path)
HasEdit(arguments) == \E i \in 1..Len(arguments) : arguments[i].k = "tag"

\* <tool> -P [<-tag=value> ...] [-filename=<newname>] <path>
WriteShape(a, fp) ==
    /\ Len(a) >= 3
    /\ a[1] = LitTok(exiftool_path)
    /\ a[2] = LitTok("-P")
    /\ a[Len(a)] = PathTok(fp)
    /\ \E n \in 2..(Len(a) - 1) :
          /\ \A i \in 3..n : a[i].k = "tag"
          /\ \/ n = Len(a) - 1
             \/ n = Len(a) - 2 /\ a[Len(a) - 1].k = "filename"

\* C1: a save_file that directly follows a load_file that returned (with or
\* without the version marker) returns False, starts no process and changes
\* no file.
C1_SaveAfterLoadDoesNothing ==
    [][(last.op = "load_file" /\ last.ret = "None" /\ last'.op = "save_file")
          => (last'.ret = "False" /\ last'.execs = <<>> /\ files' = files)]_vars

\* C2: every token list save_file passes to _execute has the write shape
\* <tool> -P [-tag=value ...] [-filename=...] <path of the loaded file>.
C2_SavePassesWriteShape ==
    last.op = "save_file" =>
        \A i \in 1..Len(last.execs) : WriteShape(last.execs[i].args, filepath)

\* C3: after a save_file that ran the tool the command list is back to the
\* two-token baseline <tool> -P.
C3_SaveConsumesCommands ==
    (SaveRan /\ RanTool) => commands = BaselineCommands

\* C4: save_file on the same-name path with overwrite=True and an edit
\* queued, whose tool run ends with an output: the loaded path is the last
\* token, the call returns True or False, True iff the output has neither
\* "unchanged" nor "errors", and no <name>_original is left.
C4_SameNameOverwriteReturnsBool ==
    (/\ SaveRan /\ RanTool /\ HasEdit(SaveArgs)
     /\ IsSameName(last.args.output_filename, filepath)
     /\ last.args.overwrite
     /\ ~last.args.run.timedout)
    => /\ SaveArgs[Len(SaveArgs)] = PathTok(filepath)
       /\ last.ret \in {"True", "False"}
       /\ last.ret = "True" <=> SaveSuccess(last.args.run.stdout)
       /\ BackupPath(filepath) \notin files

\* the tool printed this key with this value, and no later value for the key
Printed(raw, key, value) ==
    \E i \in 1..Len(raw) :
        /\ raw[i] = <<key, value>>
        /\ \A j \in (i + 1)..Len(raw) : raw[j][1] # key

\* C5: a load_file whose output carries the version marker leaves filepath
\* the loaded path, metadata exactly the keys and values of this output, and
\* commands exactly <tool> -P.
C5_LoadSuccessReplacesSession ==
    (/\ last.op = "load_file" /\ last.execs # <<>>
     /\ ~last.args.run.timedout
     /\ HasMarker(last.args.run.stdout))
    => /\ filepath = last.args.file
       /\ DOMAIN metadata = {last.args.run.stdout[i][1] : i \in 1..Len(last.args.run.stdout)}
       /\ \A key \in DOMAIN metadata : Printed(last.args.run.stdout, key, metadata[key])
       /\ commands = <<LitTok(exiftool_path), LitTok("-P")>>

\* a load that succeeds after an edit was queued for the other file
C5_Witness ==
    /\ last.op = "load_file" /\ last.execs # <<>>
    /\ HasMarker(last.args.run.stdout)
    /\ last.pre.filepath \notin {NoPath, last.args.file}
    /\ last.pre.len >= 3
    /\ metadata # <<>>

\* C6: a load_file of an existing file whose output lacks the version marker
\* returns None and leaves metadata empty, commands empty and filepath the
\* requested path.
C6_LoadFailureLeavesEmptySession ==
    (/\ last.op = "load_file" /\ last.execs # <<>>
     /\ ~last.args.run.timedout
     /\ ~HasMarker(last.args.run.stdout))
    => /\ last.ret = "None"
       /\ DOMAIN metadata = {}
       /\ Len(commands) = 0
       /\ filepath = last.args.file

\* a load without the marker after the other file was loaded with the marker
C6_Witness ==
    /\ last.op = "load_file" /\ last.execs # <<>>
    /\ ~last.args.run.timedout
    /\ ~HasMarker(last.args.run.stdout)
    /\ last.pre.filepath \notin {NoPath, last.args.file}
    /\ last.pre.len >= 2

\* the tag a set_* method writes
TagOf(op) ==
    CASE op = "set_exif_modify_date" -> "EXIF:ModifyDate"
      [] op = "set_exif_original_date" -> "EXIF:DateTimeOriginal"
      [] op = "set_mov_create_date" -> "QuickTime:CreateDate"
      [] op = "set_mov_comment" -> "QuickTime:Comment"

\* C7: every set_* call appends exactly one -tag=value token of its tag to the
\* end of commands and changes nothing else: metadata, filepath, the earlier
\* tokens and the files stay, and no process is started.
C7_SetAppendsOneToken ==
    [][last'.op \in SetOps =>
          /\ Len(commands') = Len(commands) + 1
          /\ \A i \in 1..Len(commands) : commands'[i] = commands[i]
          /\ commands'[Len(commands')].k = "tag"
          /\ commands'[Len(commands')].s = TagOf(last'.op)
          /\ UNCHANGED <<filepath, metadata, files>>
          /\ last'.execs = <<>>
          /\ last'.removed = {}]_vars

\* a set_* call on a loaded session that holds the baseline
C7_Witness ==
    /\ last.op \in SetOps
    /\ filepath # NoPath
    /\ last.pre.len = 2
    /\ Len(commands) = 3

\* C8: a save_file that reaches execution of the tool starts exactly one
\* process, and with the timeout the caller passed.
C8_SaveUsesCallerTimeout ==
    (SaveRan /\ RanTool) => /\ Len(last.execs) = 1
               /\ \A i \in 1..Len(last.execs) : last.execs[i].timeout = last.args.timeout

\* the -filename= token of a renaming save: the one before the final path
RenameTok == SaveArgs[Len(SaveArgs) - 1]
\* save_file took the same-name path without overwrite
SameNameKeep ==
    /\ SaveRan
    /\ IsSameName(last.args.output_filename, filepath)
    /\ ~last.args.overwrite

NewName == SaveRan /\ ~IsSameName(last.args.output_filename, filepath)
NewNameTarget == joinpath(filepath.dir, last.args.output_filename)

\* C10: on the new-name path the target is the loaded file's directory joined
\* with output_filename; a file at the target is deleted before execution iff
\* overwrite; the target goes through the name resolver for both overwrite
\* values, so the rename target does not exist at invocation time; the last
\* two tokens are -filename=<resolved target> and the loaded path.
C10_NewNamePath ==
    NewName =>
        /\ Len(SaveArgs) >= 2
        /\ SaveArgs[Len(SaveArgs)] = PathTok(filepath)
        /\ RenameTok.k = "filename"
        /\ RenameTok.p.dir = filepath.dir
        /\ [RenameTok.p.name EXCEPT !.it = 0] = last.args.output_filename
        /\ RenameTok.p # NewNameTarget => NewNameTarget \in SaveFs
        /\ RenameTok.p \notin SaveFs
        /\ last.removed \subseteq {NewNameTarget}
        /\ last.removed \cap SaveFs = {}
        /\ NewNameTarget \in (SaveFs \cup last.removed)
              => (NewNameTarget \in last.removed <=> last.args.overwrite)

\* a new-name save with overwrite=True onto an existing file, carried out by
\* the tool
C10_Witness ==
    /\ NewName /\ RanTool /\ HasEdit(SaveArgs)
    /\ last.args.overwrite
    /\ last.removed = {NewNameTarget}
    /\ RenameTok.p = NewNameTarget
    /\ NewNameTarget \in files
    /\ last.ret = "True"

\* a new-name save with overwrite=False onto an existing file: the resolver
\* picks an iterated name and the existing file stays
C10_WitnessKeep ==
    /\ NewName /\ RanTool
    /\ ~last.args.overwrite
    /\ RenameTok.p = IterCandidate(NewNameTarget, 1)
    /\ NewNameTarget \in files

---------------------------------------------------------------------------
(* Properties of the dispatcher *)

\* the loaded file's extension is in no readable group
NotReadable ==
    /\ filepath # NoPath
    /\ \A i \in 1..Len(Bases) :
          Keywords[Bases[i]].readable =>
              upper(filepath.name.ext) \notin Members(Keywords[Bases[i]].extensions)

\* the tag is in fields and its words are a date and a time of three
\* numbers each that name a calendar date and a clock time
ParsesAsDate(md, key) ==
    /\ key \in DOMAIN md
    /\ Len(md[key]) >= 2
    /\ Len(md[key][1]) >= 3 /\ Len(md[key][2]) >= 3
    /\ AllNumeric(md[key][1]) /\ AllNumeric(md[key][2])
    /\ ValidDateTime(<<ToInt(md[key][1][1]), ToInt(md[key][1][2]), ToInt(md[key][1][3]),
                       ToInt(md[key][2][1]), ToInt(md[key][2][2]), ToInt(md[key][2][3])>>)

\* C11: has_metadata_date_original and has_metadata_date_original_field
\* are false whenever the loaded file's extension is not readable, whatever
\* fields holds.
C11_UnreadableHasNoDate ==
    (/\ last.op \in {"has_metadata_date_original", "has_metadata_date_original_field"}
     /\ NotReadable)
    => (last.ret = "value" /\ last.val = Tagged("bool", FALSE))

\* the check on a TIF file whose fields hold a valid EXIF:DateTimeOriginal
C11_Witness ==
    /\ last.op = "has_metadata_date_original"
    /\ NotReadable
    /\ ParsesAsDate(metadata, exif_datetime_original)
    /\ last.val = Tagged("bool", FALSE)

\* the same for the field check
C11_WitnessField ==
    /\ last.op = "has_metadata_date_original_field"
    /\ NotReadable
    /\ mov_create_date \in DOMAIN metadata
    /\ last.val = Tagged("bool", FALSE)

\* C12: get_date_original returns the decoded EXIF:DateTimeOriginal when the
\* Exif group has one, otherwise the decoded QuickTime:CreateDate when the
\* QuickTime group has one, otherwise it fails with an assertion; it changes
\* nothing of the session.
C12_GetterTriesExifFirst ==
    [][last'.op = "get_date_original" =>
          /\ UNCHANGED <<filepath, metadata, commands, files>>
          /\ IF has_exif_original_date(metadata)
             THEN last'.ret = "value"
                  /\ last'.val = Tagged("date", _metadates(metadata[exif_datetime_original]).val)
             ELSE IF has_mov_create_date(metadata)
             THEN last'.ret = "value"
                  /\ last'.val = Tagged("date", _metadates(metadata[mov_create_date]).val)
             ELSE last'.ret = "AssertionError"]_vars

\* the getter on fields that hold both dates, with different values
C12_Witness ==
    /\ last.op = "get_date_original"
    /\ ParsesAsDate(metadata, exif_datetime_original)
    /\ ParsesAsDate(metadata, mov_create_date)
    /\ metadata[exif_datetime_original] # metadata[mov_create_date]
    /\ last.val = Tagged("date", <<2020, 1, 1, 0, 0, 0>>)

\* the getter on a MOV file without EXIF fields
C12_WitnessMov ==
    /\ last.op = "get_date_original"
    /\ filepath.name.ext = "MOV"
    /\ exif_datetime_original \notin DOMAIN metadata
    /\ last.val = Tagged("date", <<2021, 5, 10, 14, 30, 0>>)

\* the upper-cased extensions of the two groups, as the source lists them
ExifExtensions == {"JPEG", "JPG", "PNG", "MPO", "jpg"}
QuickTimeExtensions == {"MOV", "3GP", "MP4", "M4V", "mov"}

\* C13: set_date_original dispatches on the extension only: one
\* EXIF:DateTimeOriginal token for an Exif extension, one
\* QuickTime:CreateDate token for a QuickTime extension, and otherwise (or
\* with no file loaded) an assertion and no change of commands.
C13_SetDispatchesOnExtension ==
    [][last'.op = "set_date_original" =>
          /\ UNCHANGED <<filepath, metadata, files>>
          /\ IF filepath # NoPath /\ filepath.name.ext \in ExifExtensions
             THEN /\ last'.ret = "None"
                  /\ Len(commands') = Len(commands) + 1
                  /\ SubSeq(commands', 1, Len(commands)) = commands
                  /\ commands'[Len(commands')].k = "tag"
                  /\ commands'[Len(commands')].s = "EXIF:DateTimeOriginal"
             ELSE IF filepath # NoPath /\ filepath.name.ext \in QuickTimeExtensions
             THEN /\ last'.ret = "None"
                  /\ Len(commands') = Len(commands) + 1
                  /\ SubSeq(commands', 1, Len(commands)) = commands
                  /\ commands'[Len(commands')].k = "tag"
                  /\ commands'[Len(commands')].s = "QuickTime:CreateDate"
             ELSE /\ last'.ret = "AssertionError"
                  /\ commands' = commands]_vars

\* set_date_original on a lower-case jpg file whose fields hold only a
\* QuickTime:CreateDate
C13_Witness ==
    /\ last.op = "set_date_original"
    /\ last.ret = "None"
    /\ filepath.name.ext = "jpg"
    /\ exif_datetime_original \notin DOMAIN metadata
    /\ mov_create_date \in DOMAIN metadata
    /\ commands[Len(commands)].s = "EXIF:DateTimeOriginal"

\* set_date_original on a TIF file
C13_WitnessAssert ==
    /\ last.op = "set_date_original"
    /\ last.ret = "AssertionError"
    /\ filepath # NoPath
    /\ commands = BaselineCommands

---------------------------------------------------------------------------
(* Properties of the date codec and of the keyword groups *)

\* a split text of a date and a time word with three numbers each that name
\* a calendar date and a clock time
WellFormed(values) ==
    /\ Len(values) >= 2
    /\ Len(values[1]) = 3 /\ Len(values[2]) = 3
    /\ AllNumeric(values[1]) /\ AllNumeric(values[2])
    /\ ValidDateTime(<<ToInt(values[1][1]), ToInt(values[1][2]), ToInt(values[1][3]),
                       ToInt(values[2][1]), ToInt(values[2][2]), ToInt(values[2][3])>>)

\* C14: _metadates never raises, and for every malformed input (a
\* component that is no number, a wrong number of components, a missing
\* time token, an invalid date or time) it returns 0001-01-01 00:00:00.
C14_CodecNeverRaises ==
    last.op = "_metadates" =>
        /\ last.ret = "value"
        /\ ~WellFormed(last.input.text) => last.val = Tagged("date", <<1, 1, 1, 0, 0, 0>>)

\* C15: a has_* date check returns without raising, and returns true iff
\* the tag is in fields and its value parses as a date-time; so does
\* has_metadata_date_original for a readable file.
C15_HasIsFalseForUnparsable ==
    /\ last.op \in {"has_exif_original_date", "has_exif_modify_date",
                    "has_exif_digitized_date", "has_mov_create_date"}
       => /\ last.ret = "value"
          /\ last.val.bool <=> ParsesAsDate(metadata, last.input.key)
    /\ (last.op = "has_metadata_date_original" /\ filepath # NoPath /\ ~NotReadable)
       => /\ last.ret = "value"
          /\ last.val.bool <=> \/ ParsesAsDate(metadata, exif_datetime_original)
                               \/ ParsesAsDate(metadata, mov_create_date)

\* the extensions of the groups registered with the manager that have the flag
FlaggedExtensions(flag) ==
    UNION { Members(Keywords[g].extensions) :
              g \in {g \in {"Exif", "QuickTime"} : Keywords[g][flag]} }

\* C16: readable_extensions and fast_readable_formats are the union of the
\* extensions of the registered groups that are readable, editable_extensions
\* and fast_editable_formats the union over those that are editable, and
\* every editable extension is readable.
C16_FormatsAreUnions ==
    /\ last.op \in {"readable_extensions", "fast_readable_formats"}
       => Members(last.val.formats) = FlaggedExtensions("readable")
    /\ last.op \in {"editable_extensions", "fast_editable_formats"}
       => /\ Members(last.val.formats) = FlaggedExtensions("editable")
          /\ Members(last.val.formats) \subseteq FlaggedExtensions("readable")

\* the readable formats were asked for and hold extensions of both groups
C16_Witness ==
    /\ last.op = "fast_readable_formats"
    /\ "JPG" \in Members(last.val.formats)
    /\ "MOV" \in Members(last.val.formats)

\* the digits of a component count n and all are numbers
IsDigits(x, n) == Len(x) = n /\ IsNumeric(x)

\* C17: the token _setmetadates builds has the form -tag=YYYY:MM:DD HH:MM:SS,
\* and _metadates of its value part is the date-time that went in.
C17_RoundTrip ==
    last.op = "_setmetadates" =>
        /\ last.val.roundtrip.token.k = "tag"
        /\ Len(last.val.roundtrip.token.txt) = 2
        /\ Len(last.val.roundtrip.token.txt[1]) = 3 /\ Len(last.val.roundtrip.token.txt[2]) = 3
        /\ IsDigits(last.val.roundtrip.token.txt[1][1], 4)
        /\ IsDigits(last.val.roundtrip.token.txt[1][2], 2)
        /\ IsDigits(last.val.roundtrip.token.txt[1][3], 2)
        /\ \A i \in 1..3 : IsDigits(last.val.roundtrip.token.txt[2][i], 2)
        /\ last.val.roundtrip.decoded = [exc |-> "none", val |-> last.input.date]

\* a group breaks one of the two rules
BreaksRules(name, group) ==
    \/ group.editable /\ ~group.readable
    \/ /\ group.readable \/ group.editable
       /\ group.extensions = <<>>
       /\ name \notin {"ExifTool", "File"}

\* C18: every configured group keeps both rules, and the autotest rejects
\* exactly the groups that break one.
C18_GroupsKeepRules ==
    /\ \A n \in {"ExifTool", "File", "Exif", "QuickTime", "Asf", "NoArranged"} :
          n \in DOMAIN Keywords /\ ~BreaksRules(n, Keywords[n])
    /\ last.op = "autotest"
       => (last.ret = "AssertionError" <=> BreaksRules(last.input.group.name, last.input.group.group))

\* the autotest passed the configured File group, readable without extensions
C18_Witness ==
    /\ last.op = "autotest"
    /\ last.input.group = [name |-> "File", group |-> Keywords.File]
    /\ Keywords.File.readable /\ Keywords.File.extensions = <<>>
    /\ last.ret = "value"

\* the autotest rejected an editable group that is not readable
C18_WitnessReject ==
    /\ last.op = "autotest"
    /\ last.input.group.group.editable /\ ~last.input.group.group.readable
    /\ last.ret = "AssertionError"

\* C19: a save_file that returns False has deleted no file.
C19_FalseSaveDeletesNothing ==
    (last.op = "save_file" /\ last.ret = "False") => last.removed = {}

\* C20: with a file loaded, get_date_original returns a value iff
\* has_metadata_date_original is true and fails with its assertion iff it is
\* false.
C20_GetterAgreesWithCheck ==
    (last.op = "get_date_original" /\ filepath # NoPath) =>
        /\ last.ret = "value"
              <=> has_metadata_date_original(filepath, metadata) = Returned(TRUE)
        /\ last.ret = "AssertionError"
              <=> has_metadata_date_original(filepath, metadata) = Returned(FALSE)

====
